---- MODULE Spec2Model ----
(***************************************************************************)
(* Model of the TwinCAT SVB file reader (src/twincatscopeview/svbfile.py). *)
(*                                                                         *)
(* Representation:                                                         *)
(*   - a file or buffer is a sequence of bytes (0..255);                   *)
(*   - a decoded string is the sequence of its Unicode code points;        *)
(*   - a Python int read from a header (uint32, uint64) is exact at any    *)
(*     size: the sequence of its base-256 digits, least significant       *)
(*     first, without leading zero digits (0 is <<>>, 258 is <<2, 1>>);   *)
(*     lengths and positions of the byte sequences themselves are Int;    *)
(*   - a raw uint32 timestamp, and a float64 tick count of the time axis,  *)
(*     is a pair <<hi, lo>> standing for hi * 65536 + lo with              *)
(*     lo \in 0..65535, because values reach 2^32 and beyond;              *)
(*   - a datetime is its number of microseconds since 1601-01-01, a        *)
(*     Python int as above;                                                *)
(*   - Channel.Time is kept in 100 ns ticks, that is before the final      *)
(*     `result /= 1e7`: the division is a strictly increasing map on the   *)
(*     integers of the model, so order and equality of times are those of  *)
(*     the tick counts.                                                    *)
(***************************************************************************)
EXTENDS Integers, Sequences, FiniteSets, TLC

\* A cache cell (self._time, self._datetime): None, or the cached object.
None == <<>>
Some(x) == <<x>>

(***************************************************************************)
(* Python integers                                                         *)
(***************************************************************************)

\* Digits without the leading zeros.
RECURSIVE Norm(_)
Norm(bs) ==
    IF bs = <<>> THEN <<>>
    ELSE IF bs[Len(bs)] = 0 THEN Norm(SubSeq(bs, 1, Len(bs) - 1))
    ELSE bs

\* The Python int of a number the model holds as Int (n >= 0).
RECURSIVE PyInt(_)
PyInt(n) == IF n = 0 THEN <<>> ELSE <<n % 256>> \o PyInt(n \div 256)

\* Whether a is below 2^31, and then its value as Int.
IsSmall(a) == Len(a) < 4 \/ (Len(a) = 4 /\ a[4] < 128)

RECURSIVE ToInt(_)
ToInt(a) == IF a = <<>> THEN 0 ELSE Head(a) + 256 * ToInt(Tail(a))

Digit(a, i) == IF i <= Len(a) THEN a[i] ELSE 0
Higher(a)   == IF a = <<>> THEN <<>> ELSE Tail(a)

\* a < b
RECURSIVE LessN(_, _)
LessN(a, b) ==
    IF Len(a) # Len(b) THEN Len(a) < Len(b)
    ELSE IF a = <<>> THEN FALSE
    ELSE IF a[Len(a)] # b[Len(b)] THEN a[Len(a)] < b[Len(b)]
    ELSE LessN(SubSeq(a, 1, Len(a) - 1), SubSeq(b, 1, Len(b) - 1))

\* a + b + carry
RECURSIVE AddCarry(_, _, _)
AddCarry(a, b, carry) ==
    IF a = <<>> /\ b = <<>> THEN PyInt(carry)
    ELSE <<(Digit(a, 1) + Digit(b, 1) + carry) % 256>>
         \o AddCarry(Higher(a), Higher(b),
                     (Digit(a, 1) + Digit(b, 1) + carry) \div 256)

AddN(a, b) == AddCarry(a, b, 0)

\* a - b - borrow, for a >= b + borrow, with leading zeros
RECURSIVE SubBorrow(_, _, _)
SubBorrow(a, b, borrow) ==
    IF a = <<>> THEN <<>>
    ELSE <<(a[1] - Digit(b, 1) - borrow) % 256>>
         \o SubBorrow(Tail(a), Higher(b),
                      IF a[1] - Digit(b, 1) - borrow < 0 THEN 1 ELSE 0)

\* a - b for a >= b
SubN(a, b) == Norm(SubBorrow(a, b, 0))

\* a * k + carry for an Int k of at most 2^16, with leading zeros
RECURSIVE MulCarry(_, _, _)
MulCarry(a, k, carry) ==
    IF a = <<>> THEN PyInt(carry)
    ELSE <<(a[1] * k + carry) % 256>>
         \o MulCarry(Tail(a), k, (a[1] * k + carry) \div 256)

MulSmall(a, k) == Norm(MulCarry(a, k, 0))

\* a * b
RECURSIVE MulN(_, _)
MulN(a, b) ==
    IF b = <<>> THEN <<>>
    ELSE AddN(MulSmall(a, Head(b)), Norm(<<0>> \o MulN(a, Tail(b))))

\* divmod(a, d) for an Int d of at most 2^16
RECURSIVE DivMod(_, _)
DivMod(a, d) ==
    IF a = <<>> THEN [q |-> <<>>, r |-> 0]
    ELSE LET hi == DivMod(Tail(a), d)
         IN  [q |-> Norm(<<(hi.r * 256 + Head(a)) \div d>> \o hi.q),
              r |-> (hi.r * 256 + Head(a)) % d]

\* 2^k
Pow2(k) == [i \in 1..(k \div 8) |-> 0] \o <<2 ^ (k % 8)>>

(***************************************************************************)
(* Byte streams                                                            *)
(***************************************************************************)

\* stream.read(n) at position pos, for an Int n >= 0: at most n bytes, fewer
\* at the end of the stream.
Read(buf, pos, n) ==
    SubSeq(buf, pos + 1, IF n > Len(buf) - pos THEN Len(buf) ELSE pos + n)

\* io.BytesIO.read(n) for a Python int n >= 0.
ReadN(buf, pos, n) ==
    IF IsSmall(n) THEN Read(buf, pos, ToInt(n))
    ELSE SubSeq(buf, pos + 1, Len(buf))

\* struct.unpack of a little-endian unsigned integer ('<L', '<Q').
LE(bs) == Norm(bs)

\* struct.calcsize('<' + f) for the fixed-width format characters.
FieldSize(f) ==
    CASE f = "Q" -> 8
      [] f = "L" -> 4
      [] f = "?" -> 1
      [] f = "d" -> 8

\* A float64 is kept as its IEEE-754 bytes: the model does no arithmetic on
\* the calibration factors.
Float64(bs) == [ieee754 |-> bs]

\* struct.unpack('<' + f, bs)[0] for a buffer of exactly FieldSize(f) bytes.
Unpack(f, bs) ==
    CASE f = "?" -> (bs[1] # 0)
      [] f = "d" -> Float64(bs)
      [] OTHER   -> LE(bs)

IsCont(b) == b >= 128 /\ b <= 191

Invalid == [valid |-> FALSE, text |-> <<>>]

\* bytes.decode('utf-8'): [valid |-> TRUE, text |-> the code points], or
\* Invalid where Python raises UnicodeDecodeError.
RECURSIVE Utf8Decode(_)
Utf8Decode(bs) ==
    IF bs = <<>> THEN [valid |-> TRUE, text |-> <<>>]
    ELSE LET b0 == bs[1]
             n  == Len(bs)
             Rest(k, cp) ==
                 LET r == Utf8Decode(SubSeq(bs, k + 1, n))
                 IN  IF r.valid THEN [valid |-> TRUE, text |-> <<cp>> \o r.text]
                     ELSE Invalid
         IN  IF b0 < 128 THEN Rest(1, b0)
             ELSE IF b0 >= 194 /\ b0 <= 223
             THEN IF n >= 2 /\ IsCont(bs[2])
                  THEN Rest(2, (b0 - 192) * 64 + (bs[2] - 128))
                  ELSE Invalid
             ELSE IF b0 >= 224 /\ b0 <= 239
             THEN IF /\ n >= 3 /\ IsCont(bs[2]) /\ IsCont(bs[3])
                     /\ (b0 = 224 => bs[2] >= 160)
                     /\ (b0 = 237 => bs[2] <= 159)
                  THEN Rest(3, (b0 - 224) * 4096 + (bs[2] - 128) * 64
                                + (bs[3] - 128))
                  ELSE Invalid
             ELSE IF b0 >= 240 /\ b0 <= 244
             THEN IF /\ n >= 4 /\ IsCont(bs[2]) /\ IsCont(bs[3]) /\ IsCont(bs[4])
                     /\ (b0 = 240 => bs[2] >= 144)
                     /\ (b0 = 244 => bs[2] <= 143)
                  THEN Rest(4, (b0 - 240) * 262144 + (bs[2] - 128) * 4096
                                + (bs[3] - 128) * 64 + (bs[4] - 128))
                  ELSE Invalid
             ELSE Invalid

\* n / d for an Int d, rounded to the nearest integer, ties to the even one.
RoundHalfEven(n, d) ==
    LET dm == DivMod(n, d)
    IN  IF 2 * dm.r < d THEN dm.q
        ELSE IF 2 * dm.r > d THEN AddN(dm.q, PyInt(1))
        ELSE IF Digit(dm.q, 1) % 2 = 0 THEN dm.q ELSE AddN(dm.q, PyInt(1))

\* The p >= from with 10 * 2^p <= timeval < 10 * 2^(p+1): the binary exponent
\* of timeval / 10.
RECURSIVE Exponent(_, _)
Exponent(timeval, from) ==
    IF LessN(timeval, MulSmall(Pow2(from + 1), 10)) THEN from
    ELSE Exponent(timeval, from + 1)

\* datetime.timedelta(microseconds = timeval/10) in microseconds. timeval/10
\* is the float64 nearest to the quotient (ties to the even mantissa), a
\* multiple of 2^(p-52) for a quotient of binary exponent p; timedelta
\* rounds the float to whole microseconds, ties to even. Below 2^50 the
\* error of the float is too small to change the rounding.
Microseconds(timeval) ==
    IF LessN(timeval, MulSmall(Pow2(50), 10)) THEN RoundHalfEven(timeval, 10)
    ELSE IF LessN(timeval, MulSmall(Pow2(51), 10))
    THEN RoundHalfEven(RoundHalfEven(MulSmall(timeval, 4), 10), 4)
    ELSE IF LessN(timeval, MulSmall(Pow2(52), 10))
    THEN RoundHalfEven(RoundHalfEven(MulSmall(timeval, 2), 10), 2)
    ELSE MulSmall(RoundHalfEven(timeval, 10 * 2 ^ (Exponent(timeval, 52) - 52)),
                  2 ^ (Exponent(timeval, 52) - 52))

\* datetime.datetime.max, 9999-12-31 23:59:59.999999, in microseconds since
\* 1601-01-01: 265046774399999999.
MaxDatetime == <<255, 159, 249, 20, 163, 162, 173, 3>>

\* datetime.datetime(1601, 1, 1) + datetime.timedelta(microseconds = timeval/10):
\* <<the datetime>>, or <<>> for the OverflowError of a date after
\* datetime.max.
TicksToDatetime(timeval) ==
    IF LessN(MaxDatetime, Microseconds(timeval)) THEN None
    ELSE Some(Microseconds(timeval))

(***************************************************************************)
(* _readheader                                                             *)
(***************************************************************************)

\* An exception leaving _readheader with the stream at position pos.
RaiseAt(kind, pos) == [ok |-> FALSE, err |-> kind, fields |-> <<>>, pos |-> pos]

RECURSIVE ReadFields(_, _, _, _)

\* The '*' branch once the 4 bytes lb of the length are read: sb is what
\* file.read(strlen) returned.
ReadString(buf, pos, format, fields, sb) ==
    IF ~Utf8Decode(sb).valid
    THEN RaiseAt("UnicodeDecodeError", pos + 4 + Len(sb))
    ELSE ReadFields(buf, pos + 4 + Len(sb), Tail(format),
                    Append(fields, Utf8Decode(sb).text))

\* The loop of _readheader over the format characters still to read; fields
\* are the values decoded so far, pos the stream position.
ReadFields(buf, pos, format, fields) ==
    IF format = <<>>
    THEN [ok |-> TRUE, err |-> "", fields |-> fields, pos |-> pos]
    ELSE IF Head(format) = "*"
    THEN IF Len(Read(buf, pos, 4)) # 4
         THEN RaiseAt("struct.error", pos + Len(Read(buf, pos, 4)))
         ELSE ReadString(buf, pos, format, fields,
                         ReadN(buf, pos + 4, LE(Read(buf, pos, 4))))
    ELSE IF Head(format) = "T"
    THEN IF Len(Read(buf, pos, 8)) # 8
         THEN RaiseAt("struct.error", pos + Len(Read(buf, pos, 8)))
         ELSE IF TicksToDatetime(LE(Read(buf, pos, 8))) = None
         THEN RaiseAt("OverflowError: date value out of range", pos + 8)
         ELSE ReadFields(buf, pos + 8, Tail(format),
                         Append(fields,
                                TicksToDatetime(LE(Read(buf, pos, 8)))[1]))
    ELSE IF Len(Read(buf, pos, FieldSize(Head(format)))) # FieldSize(Head(format))
    THEN RaiseAt("struct.error",
                 pos + Len(Read(buf, pos, FieldSize(Head(format)))))
    ELSE ReadFields(buf, pos + FieldSize(Head(format)), Tail(format),
                    Append(fields,
                           Unpack(Head(format),
                                  Read(buf, pos, FieldSize(Head(format))))))

\* _readheader(file, format) with the stream at position pos.
ReadHeader(buf, pos, format) == ReadFields(buf, pos, format, <<>>)

(***************************************************************************)
(* Channel                                                                 *)
(***************************************************************************)

\* Channel.DATATYPES: the tag (its code points) and the numpy scalar type it
\* names, with the type's item size in bytes.
DATATYPES ==
    <<82, 69, 65, 76, 54, 52>>         :> [dtype |-> "float64", size |-> 8] @@
    <<82, 69, 65, 76, 51, 50>>         :> [dtype |-> "float32", size |-> 4] @@
    <<85, 73, 78, 84, 54, 52>>         :> [dtype |-> "uint64",  size |-> 8] @@
    <<85, 73, 78, 84, 51, 50>>         :> [dtype |-> "uint32",  size |-> 4] @@
    <<85, 73, 78, 84, 49, 54>>         :> [dtype |-> "uint16",  size |-> 2] @@
    <<85, 73, 78, 84, 56>>             :> [dtype |-> "uint8",   size |-> 1] @@
    <<73, 78, 84, 54, 52>>             :> [dtype |-> "int64",   size |-> 8] @@
    <<73, 78, 84, 51, 50>>             :> [dtype |-> "int32",   size |-> 4] @@
    <<73, 78, 84, 49, 54>>             :> [dtype |-> "int16",   size |-> 2] @@
    <<73, 78, 84, 56>>                 :> [dtype |-> "int8",    size |-> 1] @@
    <<66, 73, 84>>                     :> [dtype |-> "bool",    size |-> 1] @@
    <<66, 73, 84, 56>>                 :> [dtype |-> "bool",    size |-> 1] @@
    <<66, 73, 84, 65, 82, 82, 56>>     :> [dtype |-> "int8",    size |-> 1] @@
    <<66, 73, 84, 65, 82, 82, 49, 54>> :> [dtype |-> "int16",   size |-> 2] @@
    <<66, 73, 84, 65, 82, 82, 51, 50>> :> [dtype |-> "int32",   size |-> 4]

\* A variant of TypeOf: a lookup with a default, DATATYPES.get(tag, float).
TypeOfDefault(tag) ==
    IF tag \in DOMAIN DATATYPES THEN Some(DATATYPES[tag])
    ELSE Some([dtype |-> "float64", size |-> 8])

\* self.DATATYPES[self.DataType]: <<the entry>>, or <<>> for the KeyError of
\* a tag that is no key.
TypeOf(tag) ==
    IF tag \in DOMAIN DATATYPES THEN Some(DATATYPES[tag]) ELSE None

\* The format string of a channel record, 'Q**LQ?**QQ*LLQQQddQ'.
ChannelFormat ==
    <<"Q", "*", "*", "L", "Q", "?", "*", "*", "Q", "Q", "*", "L", "L",
      "Q", "Q", "Q", "d", "d", "Q">>

\* The format string of the file-level header, '*TTL'.
FileFormat == <<"*", "T", "T", "L">>

\* A numpy uint32 read from 4 little-endian bytes, as <<hi, lo>>.
U32(bs) == <<bs[4] * 256 + bs[3], bs[2] * 256 + bs[1]>>

\* A two's-complement little-endian integer: its sign and magnitude.
Signed(bs) ==
    IF bs[Len(bs)] >= 128
    THEN [negative |-> TRUE,
          magnitude |-> AddN(LE([i \in 1..Len(bs) |-> 255 - bs[i]]), PyInt(1))]
    ELSE [negative |-> FALSE, magnitude |-> LE(bs)]

\* One element of the 'Values' field, of the numpy type dtype.
DecodeValue(dtype, bs) ==
    CASE dtype \in {"float64", "float32"}                -> [ieee754 |-> bs]
      [] dtype \in {"uint64", "uint32", "uint16", "uint8"} -> LE(bs)
      [] dtype = "bool"                                    -> (bs[1] # 0)
      [] OTHER                                             -> Signed(bs)

\* mmap.ALLOCATIONGRANULARITY, the page size of the platform.
ALLOCATIONGRANULARITY == 4096

\* A Python int of either sign.
Z(negative, magnitude) ==
    [negative |-> negative /\ magnitude # <<>>, magnitude |-> magnitude]

\* x + y for two ints of either sign.
AddZ(x, y) ==
    IF x.negative = y.negative
    THEN Z(x.negative, AddN(x.magnitude, y.magnitude))
    ELSE IF LessN(x.magnitude, y.magnitude)
    THEN Z(y.negative, SubN(y.magnitude, x.magnitude))
    ELSE Z(x.negative, SubN(x.magnitude, y.magnitude))

\* product modulo 2^64, for a product below 2^66.
RECURSIVE Mod64(_)
Mod64(product) ==
    IF LessN(product, Pow2(64)) THEN product
    ELSE Mod64(SubN(product, Pow2(64)))

\* The numpy int64 holding a product of int64 scalars: the arithmetic wraps.
Int64(product) ==
    IF LessN(Mod64(product), Pow2(63)) THEN Z(FALSE, Mod64(product))
    ELSE Z(TRUE, SubN(Pow2(64), Mod64(product)))

\* The int64 sum of two int64 scalars whose exact sum is x.
Wrap64(x) ==
    IF x.negative
    THEN IF LessN(Pow2(63), x.magnitude)
         THEN Z(FALSE, SubN(Pow2(64), x.magnitude)) ELSE x
    ELSE IF LessN(x.magnitude, Pow2(63)) THEN x
         ELSE Z(TRUE, SubN(Pow2(64), x.magnitude))

\* The p >= from with 2^p <= x < 2^(p+1).
RECURSIVE BinaryExponent(_, _)
BinaryExponent(x, from) ==
    IF LessN(x, Pow2(from + 1)) THEN from ELSE BinaryExponent(x, from + 1)

\* The float64 nearest to x (ties to the even mantissa), for x below 2^66.
ToFloat64(x) ==
    IF LessN(x, Pow2(53)) THEN x
    ELSE MulSmall(RoundHalfEven(x, 2 ^ (BinaryExponent(x, 53) - 52)),
                  2 ^ (BinaryExponent(x, 53) - 52))

\* bytes = int(offset + size*_dbytes) of np.memmap, where size*_dbytes is
\* the int64 sp: an offset below 2^63 is taken as int64 and the sum wraps;
\* a larger one is taken as uint64, and the sum of a uint64 and an int64 is
\* made in float64.
MemmapBytes(offset, sp) ==
    IF LessN(offset, Pow2(63)) THEN Wrap64(AddZ(Z(FALSE, offset), sp))
    ELSE IF sp.negative
    THEN Z(FALSE, ToFloat64(SubN(ToFloat64(offset), ToFloat64(sp.magnitude))))
    ELSE Z(FALSE, ToFloat64(AddN(ToFloat64(offset), ToFloat64(sp.magnitude))))

\* mmap.mmap(fileno, length, access = ACCESS_READ, offset = start) for a
\* start >= 0: "" when the file is mapped, else the exception. The
\* arguments are converted to their C types, the length first; a negative
\* length is refused; a length of 0 maps the file from start to its end,
\* which needs a file that is not empty and start before its end; any
\* other length must lie within the file.
Mmap(file, length, start) ==
    IF IF length.negative THEN LessN(Pow2(63), length.magnitude)
       ELSE ~LessN(length.magnitude, Pow2(63))
    THEN "OverflowError: Python int too large to convert to C ssize_t"
    ELSE IF ~LessN(start, Pow2(63))
    THEN "OverflowError: Python int too large to convert to C long"
    ELSE IF length.negative
    THEN "OverflowError: memory mapped length must be positive"
    ELSE IF length.magnitude = <<>>
    THEN IF file = <<>> THEN "ValueError: cannot mmap an empty file"
         ELSE IF ~LessN(start, PyInt(Len(file)))
         THEN "ValueError: mmap offset is greater than file size"
         ELSE ""
    ELSE IF LessN(PyInt(Len(file)), AddN(start, length.magnitude))
    THEN "ValueError: mmap length is greater than file size"
    ELSE ""

\* The length of the mapping mmap.mmap has made.
MappedLength(file, length, start) ==
    IF length.magnitude = <<>> THEN SubN(PyInt(Len(file)), start)
    ELSE length.magnitude

\* ndarray.__new__(subtype, shape, dtype, buffer = mm, offset = array_offset)
\* on a mapping of mapped bytes, for an array of product bytes: the buffer
\* is tested first, against the byte count nb held in a C integer of 64
\* bits, then the array is made and its exact size tested. The message of
\* the second exception is given up to its semicolon.
NdarrayNew(mapped, array_offset, product) ==
    IF /\ ~Int64(product).negative
       /\ LessN(mapped, AddN(array_offset, Int64(product).magnitude))
    THEN "TypeError: buffer is too small for requested array"
    ELSE IF ~LessN(product, Pow2(63))
    THEN "ValueError: array is too big"
    ELSE ""

\* np.memmap from the call of mmap.mmap on: start is offset rounded down to
\* a multiple of ALLOCATIONGRANULARITY and bytes the end of the array as
\* np.memmap has computed it.
MemmapFrom(file, offset, start, bytes, product) ==
    IF Mmap(file, AddZ(bytes, Z(TRUE, start)), start) # ""
    THEN Mmap(file, AddZ(bytes, Z(TRUE, start)), start)
    ELSE NdarrayNew(MappedLength(file, AddZ(bytes, Z(TRUE, start)), start),
                    SubN(offset, start), product)

\* np.memmap(file, dtype, 'r', offset, (n,)) for a dtype of itemsize bytes
\* and n below 2^62: "" when the array is mapped, else the exception.
Memmap(file, offset, n, itemsize) ==
    MemmapFrom(file, offset,
               SubN(offset, PyInt(DivMod(offset, ALLOCATIONGRANULARITY).r)),
               MemmapBytes(offset, Int64(MulSmall(n, itemsize))),
               MulSmall(n, itemsize))

\* The bytes of record i (from 0) of the mapped array.
RecordBytes(file, offset, itemsize, i) ==
    SubSeq(file, offset + i * itemsize + 1, offset + (i + 1) * itemsize)

\* An exception leaving Channel.__init__.
ChannelRaise(kind, hdr, startpos) ==
    [ok |-> FALSE, err |-> kind, ch |-> <<>>, pos |-> hdr.pos,
     startpos |-> startpos, hdr |-> hdr]

\* A variant of DataSizeHolds: the assert statement stripped (python -O).
DataSizeUnchecked(VariableSize, SamplesInFile, DataInFile) == TRUE

\* assert self.DataInFile == (self.VariableSize + 4) * self.SamplesInFile
DataSizeHolds(VariableSize, SamplesInFile, DataInFile) ==
    DataInFile = MulN(AddN(VariableSize, PyInt(4)), SamplesInFile)

\* The mapped array self.Data and its two fields, for the numpy type ty.
DataView(file, offset, n, ty) ==
    [Data |-> [offset |-> offset, itemsize |-> 4 + ty.size, shape |-> n,
               dtype |-> ty.dtype],
     Timestamp |-> [i \in 1..n |->
         U32(SubSeq(RecordBytes(file, offset, 4 + ty.size, i - 1), 1, 4))],
     Values |-> [i \in 1..n |->
         DecodeValue(ty.dtype,
                     SubSeq(RecordBytes(file, offset, 4 + ty.size, i - 1),
                            5, 4 + ty.size))]]

\* A variant of ChannelObject: Offset and Scalefactor taken from each
\* other's field.
ChannelObjectSwapped(f, starttime, view) ==
    [_time |-> None, _datetime |-> None, StartTime |-> starttime,
     Name |-> f[2], NetId |-> f[3], Port |-> f[4], SampleTime |-> f[5],
     SymbolBased |-> f[6], SymbolName |-> f[7], Comment |-> f[8],
     IndexGroup |-> f[9], IndexOffset |-> f[10], DataType |-> f[11],
     DataTypeId |-> f[12], VariableSize |-> f[13], SamplesInFile |-> f[14],
     DataInFile |-> f[15], FileStartPosition |-> f[16],
     Offset |-> f[18], Scalefactor |-> f[17], Bitmask |-> f[19],
     Data |-> view.Data, Timestamp |-> view.Timestamp, Values |-> view.Values]

\* The Channel object once every check has passed; f are the header fields
\* and view the mapped array.
ChannelObject(f, starttime, view) ==
    [_time |-> None, _datetime |-> None, StartTime |-> starttime,
     Name |-> f[2], NetId |-> f[3], Port |-> f[4],
     SampleTime |-> f[5],   \* in 100 ns units; the code scales by 100e-9
     SymbolBased |-> f[6], SymbolName |-> f[7], Comment |-> f[8],
     IndexGroup |-> f[9], IndexOffset |-> f[10], DataType |-> f[11],
     DataTypeId |-> f[12], VariableSize |-> f[13], SamplesInFile |-> f[14],
     DataInFile |-> f[15], FileStartPosition |-> f[16],
     Offset |-> f[17], Scalefactor |-> f[18], Bitmask |-> f[19],
     Data |-> view.Data, Timestamp |-> view.Timestamp, Values |-> view.Values]

\* Channel.__init__ after its call of _readheader returned or raised hdr.
\* Of the fields, 1 is headersize, 11 DataType, 13 VariableSize,
\* 14 SamplesInFile, 15 DataInFile and 16 FileStartPosition.
ChannelChecks(file, startpos, starttime, hdr) ==
    IF ~hdr.ok THEN ChannelRaise(hdr.err, hdr, startpos)
    ELSE IF PyInt(hdr.pos - startpos) # hdr.fields[1]
    THEN ChannelRaise("IOError: channel header size mismatch", hdr, startpos)
    ELSE IF ~DataSizeHolds(hdr.fields[13], hdr.fields[14], hdr.fields[15])
    THEN ChannelRaise("AssertionError", hdr, startpos)
    ELSE IF TypeOf(hdr.fields[11]) = None
    THEN ChannelRaise("KeyError", hdr, startpos)
    ELSE IF Memmap(file, hdr.fields[16], hdr.fields[14],
                   4 + TypeOf(hdr.fields[11])[1].size) # ""
    THEN ChannelRaise(Memmap(file, hdr.fields[16], hdr.fields[14],
                             4 + TypeOf(hdr.fields[11])[1].size),
                      hdr, startpos)
    ELSE [ok |-> TRUE, err |-> "", pos |-> hdr.pos, startpos |-> startpos,
          hdr |-> hdr,
          ch |-> <<ChannelObject(hdr.fields, starttime,
                       DataView(file, ToInt(hdr.fields[16]),
                                ToInt(hdr.fields[14]),
                                TypeOf(hdr.fields[11])[1]))>>]

\* Channel.__init__(headerfile, file, starttime) with headerfile at startpos.
\* ch is <<the Channel>> when construction succeeds; hdr is what _readheader
\* returned and pos where it left headerfile.
ChannelInit(header, file, startpos, starttime) ==
    ChannelChecks(file, startpos, starttime,
                  ReadHeader(header, startpos, ChannelFormat))

\* Orders of the <<hi, lo>> numbers.
Less(a, b) == a[1] < b[1] \/ (a[1] = b[1] /\ a[2] < b[2])

\* One element of np.diff on a uint32 array: the difference wraps modulo 2^32.
U32Sub(a, b) ==
    LET borrow == IF a[2] < b[2] THEN 1 ELSE 0
    IN  <<(a[1] - b[1] - borrow) % 65536, (a[2] - b[2]) % 65536>>

\* np.diff(t) for a uint32 array t.
Diff(t) == [i \in 1..(Len(t) - 1) |-> U32Sub(t[i + 1], t[i])]

\* float64 addition of two tick counts (exact: the sums stay far below 2^53).
F64Add(a, b) ==
    <<a[1] + b[1] + ((a[2] + b[2]) \div 65536), (a[2] + b[2]) % 65536>>

\* The sum of dt[1..i] in float64.
RECURSIVE SumTo(_, _)
SumTo(dt, i) == IF i = 1 THEN dt[1] ELSE F64Add(SumTo(dt, i - 1), dt[i])

\* np.cumsum(dt, out = a float64 array): the running sums of dt alone.
CumSum(dt) == [i \in 1..Len(dt) |-> SumTo(dt, i)]

\* The body of the Time property for a non-empty Timestamp array t, in ticks:
\* result[0] = t[0], then np.cumsum(dt, out = result[1:]).
TimeAxis(t) == <<t[1]>> \o CumSum(Diff(t))

\* ticks / 10 as <<quotient <<hi, lo>>, remainder>>.
Div10(a) ==
    LET mid == (a[1] % 10) * 65536 + a[2]
        q   == mid \div 10
    IN  <<<<(a[1] \div 10) + (q \div 65536), q % 65536>>, mid % 10>>

\* StartTime + datetime.timedelta(seconds = s) for s = ticks / 1e7: the time
\* delta is rounded to a whole number of microseconds. When ticks / 10 falls
\* exactly between two of them, the rounding error of the float s decides
\* which one the code produces, so both are possible outcomes.
DatetimeChoices(start, ticks) ==
    LET d    == Div10(ticks)
        down == AddN(start, AddN(PyInt(d[1][2]), MulN(PyInt(d[1][1]), Pow2(16))))
        up   == AddN(down, PyInt(1))
    IN  IF d[2] < 5 THEN {down}
        ELSE IF d[2] > 5 THEN {up}
        ELSE {down, up}

\* The lists [StartTime + timedelta(seconds = s) for s in time].
RECURSIVE DatetimeLists(_, _)
DatetimeLists(start, time) ==
    IF time = <<>> THEN {<<>>}
    ELSE {<<h>> \o rest : h \in DatetimeChoices(start, Head(time)),
                          rest \in DatetimeLists(start, Tail(time))}

\* np.all(t == time): numpy compares element-wise after broadcasting a
\* length-1 operand; operands that cannot be broadcast compare as False.
AllEqual(t, time) ==
    IF Len(t) = Len(time) THEN \A i \in 1..Len(t) : t[i] = time[i]
    ELSE IF Len(t) = 1 THEN \A i \in 1..Len(time) : time[i] = t[1]
    ELSE IF Len(time) = 1 THEN \A i \in 1..Len(t) : t[i] = time[1]
    ELSE FALSE

IsSorted(xp) == \A i \in 1..(Len(xp) - 1) : ~Less(xp[i + 1], xp[i])

\* numpy's search of x in xp (indices from 1): 0 when x is left of xp,
\* Len(xp) + 1 right of it, else the index j of the interval.
SearchIndex(x, xp) ==
    LET n == Len(xp) IN
    IF Less(xp[n], x) THEN n + 1
    ELSE IF Less(x, xp[1]) THEN 0
    ELSE LET stop == {i \in 2..n : Less(x, xp[i])
                                    /\ \A k \in 2..(i - 1) : ~Less(x, xp[k])}
         IN  IF stop = {} THEN n ELSE (CHOOSE i \in stop : TRUE) - 1

\* One element of np.interp(t, xp, fp): which points of the channel the
\* value is taken from. "left" and "right" clamp to the boundary value,
\* "node" is the value at xp[j], "lerp" the straight line from a to b taken
\* at x. On an xp that is not sorted numpy bisects from a guess when xp has
\* more than 4 points, and the result is documented as nonsense.
InterpAt(x, xp, fp) ==
    LET n == Len(xp)
        P(j) == [x |-> xp[j], y |-> fp[j]]
        j == SearchIndex(x, xp)
    IN  IF n = 1
        THEN [kind |-> IF Less(x, xp[1]) THEN "left"
                       ELSE IF Less(xp[1], x) THEN "right" ELSE "node",
              at |-> x, a |-> P(1), b |-> P(1)]
        ELSE IF n > 4 /\ ~IsSorted(xp)
        THEN [kind |-> "nonsense", at |-> x, a |-> P(1), b |-> P(n)]
        ELSE IF j = 0 THEN [kind |-> "left", at |-> x, a |-> P(1), b |-> P(1)]
        ELSE IF j = n + 1
        THEN [kind |-> "right", at |-> x, a |-> P(n), b |-> P(n)]
        ELSE IF j = n \/ xp[j] = x
        THEN [kind |-> "node", at |-> x, a |-> P(j), b |-> P(j)]
        ELSE [kind |-> "lerp", at |-> x, a |-> P(j), b |-> P(j + 1)]

\* np.interp(t, xp, fp)
Interp(t, xp, fp) == [i \in 1..Len(t) |-> InterpAt(t[i], xp, fp)]

\* Channel.interpolate(t), given the channel's time axis.
InterpolateWith(t, time, values) ==
    IF AllEqual(t, time) THEN [path |-> "shortcut", result |-> values]
    ELSE [path |-> "interp", result |-> Interp(t, time, values)]

(***************************************************************************)
(* SVBFile                                                                 *)
(***************************************************************************)

\* A variant of DictSet: an existing key is removed and the item put last.
DictSetMoveToEnd(d, key, value) ==
    Append(SelectSeq(d, LAMBDA item : item.key # key),
           [key |-> key, value |-> value])

\* self._channels[key] = value on a dict kept as the sequence of its items in
\* insertion order: an existing key keeps its place and takes the new value.
DictSet(d, key, value) ==
    IF \E i \in 1..Len(d) : d[i].key = key
    THEN [i \in 1..Len(d) |->
             IF d[i].key = key THEN [key |-> key, value |-> value] ELSE d[i]]
    ELSE Append(d, [key |-> key, value |-> value])

RECURSIVE ChannelLoop(_, _, _, _, _, _, _)

\* One iteration of the loop, c being what Channel(header, file,
\* self.StartTime) returned or raised.
ChannelLoopStep(header, file, remaining, starttime, channels, log, c) ==
    IF ~c.ok
    THEN [ok |-> FALSE, err |-> c.err, channels |-> channels, pos |-> c.pos,
          log |-> Append(log, c)]
    ELSE ChannelLoop(header, file, c.pos, SubN(remaining, PyInt(1)), starttime,
                     DictSet(channels, c.ch[1].Name, c.ch[1]), Append(log, c))

\* The loop `for i in range(self.ChannelCount)` of SVBFile.__init__ with
\* `remaining` iterations to go; log keeps what each Channel(...) call
\* returned or raised, in file order.
ChannelLoop(header, file, pos, remaining, starttime, channels, log) ==
    IF remaining = <<>>
    THEN [ok |-> TRUE, err |-> "", channels |-> channels, pos |-> pos,
          log |-> log]
    ELSE ChannelLoopStep(header, file, remaining, starttime, channels, log,
                         ChannelInit(header, file, pos, starttime))

\* No SVBFile object: before the constructor is called.
NoFile ==
    [state |-> "none", err |-> "", Name |-> <<>>, StartTime |-> <<>>,
     EndTime |-> <<>>, ChannelCount |-> <<>>, _channels |-> <<>>,
     headerSize |-> <<>>, headerLen |-> 0, headerPos |-> 0, log |-> <<>>]

\* An exception leaving SVBFile.__init__: the caller gets no object. The
\* locals of the constructor are kept for reference.
FileRaise(kind, headerSize, headerLen, headerPos, log) ==
    [NoFile EXCEPT !.state = "error", !.err = kind,
                   !.headerSize = headerSize, !.headerLen = headerLen,
                   !.headerPos = headerPos, !.log = log]

\* The end of SVBFile.__init__: loop is the outcome of the channel loop,
\* then header.read(1) checks that the header buffer is used up.
FinishInit(headerSize, header, fh, loop) ==
    IF ~loop.ok
    THEN FileRaise(loop.err, headerSize, Len(header), loop.pos, loop.log)
    ELSE IF Read(header, loop.pos, 1) # <<>>
    THEN FileRaise("IOError: file header size mismatch", headerSize,
                   Len(header), loop.pos + 1, loop.log)
    ELSE [state |-> "ok", err |-> "", Name |-> fh.fields[1],
          StartTime |-> fh.fields[2], EndTime |-> fh.fields[3],
          ChannelCount |-> fh.fields[4], _channels |-> loop.channels,
          headerSize |-> headerSize, headerLen |-> Len(header),
          headerPos |-> loop.pos, log |-> loop.log]

\* SVBFile.__init__ once _readheader(header, '*TTL') returned or raised fh.
ReadChannels(file, headerSize, header, fh) ==
    IF ~fh.ok THEN FileRaise(fh.err, headerSize, Len(header), fh.pos, <<>>)
    ELSE FinishInit(headerSize, header, fh,
                    ChannelLoop(header, file, fh.pos, fh.fields[4],
                                fh.fields[2], <<>>, <<>>))

\* SVBFile.__init__ from header = io.BytesIO(file.read(headerSize - 8)) on.
ReadFileHeader(file, headerSize, header) ==
    ReadChannels(file, headerSize, header, ReadHeader(header, 0, FileFormat))

\* SVBFile.__init__ once headerSize is unpacked, from
\* file.read(headerSize - 8) on. The read raises ValueError for a length
\* below -1, reads to the end of the file for -1, and raises OverflowError
\* for a length that is no index (2^63 and more) or no size of a bytes
\* object (above 2^63 - 34). Otherwise a length beyond the end of the file
\* has a buffer of that length allocated before the bytes left are read:
\* whether memory of 2 GiB or more is granted depends on the machine, and
\* alloc tells whether it is.
OpenHeader(file, headerSize, alloc) ==
    IF LessN(headerSize, PyInt(7))
    THEN FileRaise("ValueError: read length must be non-negative or -1",
                   headerSize, 0, 0, <<>>)
    ELSE IF headerSize = PyInt(7)
    THEN ReadFileHeader(file, headerSize, SubSeq(file, 9, Len(file)))
    ELSE IF ~LessN(SubN(headerSize, PyInt(8)), Pow2(63))
    THEN FileRaise("OverflowError: cannot fit 'int' into an index-sized integer",
                   headerSize, 0, 0, <<>>)
    ELSE IF LessN(SubN(Pow2(63), PyInt(34)), SubN(headerSize, PyInt(8)))
    THEN FileRaise("OverflowError: byte string is too large",
                   headerSize, 0, 0, <<>>)
    ELSE IF ~IsSmall(SubN(headerSize, PyInt(8))) /\ ~alloc
    THEN FileRaise("MemoryError", headerSize, 0, 0, <<>>)
    ELSE ReadFileHeader(file, headerSize,
                        ReadN(file, 8, SubN(headerSize, PyInt(8))))

\* SVBFile.__init__(filename) on a file with the given bytes. Of the result,
\* headerSize is the local of that name, headerLen the length of the header
\* buffer and headerPos its position when the constructor ends.
SVBFileInit(file, alloc) ==
    IF Len(Read(file, 0, 8)) # 8
    THEN FileRaise("struct.error", <<>>, 0, 0, <<>>)
    ELSE OpenHeader(file, LE(Read(file, 0, 8)), alloc)

(***************************************************************************)
(* Input files                                                             *)
(***************************************************************************)

\* Bounds of the inputs.
MaxChannels == 3        \* channel records in a file of Init
HeaderSamples == 1      \* samples per channel in a file of Init
MaxSamples == 4         \* samples of the channel in a file of InitChannel
PairSamples == 1        \* samples per channel in a file of InitPair
MaxT == 2               \* length of a time axis passed to interpolate
MaxFields == 2          \* fields of a format passed to _readheader

\* n as w little-endian bytes (struct.pack('<Q', n) for w = 8).
RECURSIVE PackInt(_, _)
PackInt(n, w) == IF w = 0 THEN <<>> ELSE <<n % 256>> \o PackInt(n \div 256, w - 1)

\* A string field: the uint32 length, then the bytes.
PackStr(bs) == PackInt(Len(bs), 4) \o bs

\* A uint32 <<hi, lo>> as 4 little-endian bytes.
PackU32(v) == PackInt(v[2], 2) \o PackInt(v[1], 2)

RECURSIVE Concat(_)
Concat(ss) == IF ss = <<>> THEN <<>> ELSE Head(ss) \o Concat(Tail(ss))

SeqsOf(S, lo, hi) == UNION {[1..n -> S] : n \in lo..hi}

\* The raw timestamps 4294967290, 4294967295, 5 and 10.
TickValues == {<<65535, 65530>>, <<65535, 65535>>, <<0, 5>>, <<0, 10>>}

TagINT8   == <<73, 78, 84, 56>>
TagUINT16 == <<85, 73, 78, 84, 49, 54>>
TagWORD   == <<87, 79, 82, 68>>          \* not a key of DATATYPES

\* A record: its size, sizeExtra too large, then its body.
Sized(body, sizeExtra) == PackInt(8 + Len(body) + sizeExtra, 8) \o body

\* A channel record as a writer lays it out. p.vsize is the value width the
\* record declares and the data region is written with; p.dataExtra is added
\* to the data size the record declares, p.sizeExtra to its record size.
ChannelRecord(p, fsp) ==
    Sized(PackStr(p.name) \o PackStr(<<49, 46, 50>>) \o PackInt(851, 4)
          \o PackInt(10000, 8) \o <<1>> \o PackStr(p.name)
          \o PackStr(p.comment) \o PackInt(16448, 8) \o PackInt(0, 8)
          \o PackStr(p.tag) \o PackInt(5, 4) \o PackInt(p.vsize, 4)
          \o PackInt(Len(p.raw), 8)
          \o PackInt((p.vsize + 4) * Len(p.raw) + p.dataExtra, 8)
          \o PackInt(fsp, 8)
          \o <<0, 0, 0, 0, 0, 0, 0, 0>> \o <<0, 0, 0, 0, 0, 0, 240, 63>>
          \o PackInt(255, 8),
          p.sizeExtra)

\* The data region of a channel: n records of a timestamp and a value.
ChannelData(p) ==
    Concat([i \in 1..Len(p.raw) |->
               PackU32(p.raw[i]) \o PackInt(p.vals[i], p.vsize)])

\* 133000000000000010 ticks, a time in 2022, and the time 30 ticks later.
StartTicks == <<10, 128, 32, 155, 203, 130, 216, 1>>
EndTicks   == <<40, 128, 32, 155, 203, 130, 216, 1>>

\* The file-level header declaring count channels.
FileHeader(count) ==
    PackStr(<<102>>) \o StartTicks \o EndTicks \o PackInt(count, 4)

\* The length of the first i channel records, and of the first i data regions.
RECURSIVE RecordsLen(_, _)
RecordsLen(chans, i) ==
    IF i = 0 THEN 0
    ELSE RecordsLen(chans, i - 1) + Len(ChannelRecord(chans[i], 0))

RECURSIVE DataLen(_, _)
DataLen(chans, i) ==
    IF i = 0 THEN 0 ELSE DataLen(chans, i - 1) + Len(ChannelData(chans[i]))

\* The file whose header region is `actual` bytes long.
Assemble(chans, fault, actual) ==
    (CASE fault \in {"extra byte", "declared+1"} -> PackInt(actual + 1, 8)
       [] fault = "declared-1"    -> PackInt(actual - 1, 8)
       [] fault = "declared 7"    -> PackInt(7, 8)
       [] fault = "declared 0"    -> PackInt(0, 8)
       [] fault = "declared 2^40" -> <<0, 0, 0, 0, 0, 1, 0, 0>>
       [] fault = "declared 2^63" -> <<0, 0, 0, 0, 0, 0, 0, 128>>
       [] fault = "declared 2^64-1" ->
              <<255, 255, 255, 255, 255, 255, 255, 255>>
       [] OTHER                   -> PackInt(actual, 8))
    \o FileHeader(CASE fault = "count+1" -> Len(chans) + 1
                    [] fault = "count-1" -> Len(chans) - 1
                    [] OTHER             -> Len(chans))
    \o Concat([i \in 1..Len(chans) |->
                  ChannelRecord(chans[i],
                      actual + (IF fault = "extra byte" THEN 1 ELSE 0)
                      + DataLen(chans, i - 1))])
    \o (IF fault = "extra byte" THEN <<170>> ELSE <<>>)
    \o Concat([i \in 1..Len(chans) |-> ChannelData(chans[i])])

\* A whole file: the header size, the file-level header, the channel
\* records, then the data regions in channel order. fault names the one way
\* the file departs from a well-formed one.
BuildFile(chans, fault) ==
    Assemble(chans, fault,
             8 + Len(FileHeader(0)) + RecordsLen(chans, Len(chans)))

Names == {<<97>>, <<98, 99>>}

\* tag, declared value width, comment
Layouts ==
    {[tag |-> TagINT8,   vsize |-> 1, comment |-> <<195, 169>>],
     [tag |-> TagUINT16, vsize |-> 2, comment |-> <<>>],
     [tag |-> TagUINT16, vsize |-> 4, comment |-> <<>>]}

ChannelParam(name, layout, raw, vals) ==
    [name |-> name, tag |-> layout.tag, vsize |-> layout.vsize,
     comment |-> layout.comment, raw |-> raw, vals |-> vals,
     dataExtra |-> 0, sizeExtra |-> 0]

\* Timestamps 10, 20, ... and values 100, 200, ... (mod 256).
Ramp(n) == [i \in 1..n |-> <<0, 10 * i>>]
RampValues(n, step) == [i \in 1..n |-> (step * i) % 256]

\* The well-formed channel records of Init.
GoodChannels ==
    {ChannelParam(name, layout, Ramp(n), RampValues(n, 100)) :
        name \in Names, layout \in Layouts, n \in 0..HeaderSamples}

\* The records before the last one are INT8 channels of HeaderSamples
\* samples; the last record takes every layout and every record fault.
LeadChannels ==
    {ChannelParam(name, [tag |-> TagINT8, vsize |-> 1, comment |-> <<195, 169>>],
                  Ramp(HeaderSamples), RampValues(HeaderSamples, 100)) :
        name \in Names}

FileFaults ==
    {"none", "extra byte", "declared+1", "declared-1", "declared 7",
     "declared 0", "declared 2^40", "declared 2^63", "declared 2^64-1",
     "count+1", "count-1"}
RecordFaults == {"tag", "tag+data", "data", "size"}

\* The last record of a file with a record fault.
WithFault(p, fault) ==
    CASE fault = "tag"      -> [p EXCEPT !.tag = TagWORD]
      [] fault = "tag+data" -> [p EXCEPT !.tag = TagWORD, !.dataExtra = 1]
      [] fault = "data"     -> [p EXCEPT !.dataExtra = 1]
      [] fault = "size"     -> [p EXCEPT !.sizeExtra = 1]
      [] OTHER              -> p

\* The files of Init: up to MaxChannels records and at most one fault.
HeaderFiles ==
    {BuildFile(<<>>, fault) : fault \in FileFaults \ {"count-1"}}
    \cup
    {BuildFile(Append(pre, WithFault(last, fault)), fault) :
        pre \in SeqsOf(LeadChannels, 0, MaxChannels - 1),
        last \in GoodChannels, fault \in FileFaults \cup RecordFaults}

\* The files of InitChannel: one UINT16 channel whose timestamps are any
\* sequence over TickValues.
ChannelFiles ==
    {BuildFile(<<ChannelParam(<<97>>,
                     [tag |-> TagUINT16, vsize |-> 2, comment |-> <<>>],
                     raw, RampValues(Len(raw), step))>>, "none") :
        raw \in SeqsOf(TickValues, 0, MaxSamples), step \in {0, 10}}

\* The raw timestamps 5 and 4294967295 of the files of InitPair.
PairTicks == {<<0, 5>>, <<65535, 65535>>}

\* The files of InitPair: two channels of different names.
PairFiles ==
    {BuildFile(<<ChannelParam(<<97>>,
                     [tag |-> TagUINT16, vsize |-> 2, comment |-> <<>>],
                     r1, RampValues(Len(r1), 10)),
                 ChannelParam(<<98, 99>>,
                     [tag |-> TagINT8, vsize |-> 1, comment |-> <<>>],
                     r2, RampValues(Len(r2), 100))>>, "none") :
        r1 \in SeqsOf(PairTicks, 0, PairSamples),
        r2 \in SeqsOf(PairTicks, 0, PairSamples)}

\* The time axes passed to interpolate, in ticks.
TValues == {<<0, 5>>, <<0, 10>>}
TimeArgs == SeqsOf(TValues, 0, MaxT)

\* The fields a buffer handed to _readheader is made of: the format
\* character and the bytes written for it.
FieldSamples ==
    {[f |-> "*", bytes |-> PackStr(<<65>>)],
     [f |-> "*", bytes |-> PackStr(<<65, 195, 169>>)],
     [f |-> "*", bytes |-> PackStr(<<>>)],
     [f |-> "*", bytes |-> PackInt(5, 4) \o <<97, 98>>],
     [f |-> "*", bytes |-> PackStr(<<255>>)],
     [f |-> "T", bytes |-> PackInt(25, 8)],
     [f |-> "T", bytes |-> StartTicks],
     [f |-> "T", bytes |-> <<0, 0, 0, 0, 0, 0, 0, 128>>],
     [f |-> "Q", bytes |-> PackInt(258, 8)],
     [f |-> "L", bytes |-> PackInt(3, 4)],
     [f |-> "?", bytes |-> <<2>>],
     [f |-> "d", bytes |-> <<0, 0, 0, 0, 0, 0, 240, 63>>]}

(***************************************************************************)
(* State                                                                   *)
(***************************************************************************)

VARIABLES
    file,    \* the bytes of the file on disk
    svb,     \* the SVBFile object, or what its constructor raised
    writes,  \* per item of svb._channels, how often the Time and Datetime
             \* properties have stored a result in _time and _datetime
    call,    \* the last call made on svb or on one of its channels
    ret,     \* what that call returned or raised
    rd       \* a direct call of _readheader: arguments and outcome

vars == <<file, svb, writes, call, ret, rd>>

NoCall == [op |-> "", key |-> <<>>, arg |-> <<>>]
NoRet  == [raised |-> "", value |-> <<>>, via |-> ""]
NoRead == [format |-> <<>>, buf |-> <<>>, pos |-> 0, out |-> <<>>]

Returned(v, via) == [raised |-> "", value |-> v, via |-> via]
Raised(kind)     == [raised |-> kind, value |-> <<>>, via |-> ""]

Start(files) ==
    /\ file \in files
    /\ svb = NoFile
    /\ writes = <<>>
    /\ call = NoCall
    /\ ret = NoRet
    /\ rd = NoRead

Init        == Start(HeaderFiles)
InitChannel == Start(ChannelFiles)
InitPair    == Start(PairFiles)

InitRead ==
    /\ file = <<>>
    /\ svb = NoFile
    /\ writes = <<>>
    /\ call = NoCall
    /\ ret = NoRet
    /\ \E fs \in SeqsOf(FieldSamples, 1, MaxFields), pad \in 0..1 :
         LET bytes == [i \in 1..pad |-> 170]
                      \o Concat([i \in 1..Len(fs) |-> fs[i].bytes])
         IN  \E cut \in pad..Len(bytes) :
               rd = [format |-> [i \in 1..Len(fs) |-> fs[i].f],
                     buf |-> SubSeq(bytes, 1, cut), pos |-> pad, out |-> <<>>]

(***************************************************************************)
(* Operations                                                              *)
(***************************************************************************)

\* svbfile = SVBFile(filename)
Construct ==
    /\ svb.state = "none"
    /\ file # <<>>
    /\ \E alloc \in BOOLEAN : svb' = SVBFileInit(file, alloc)
    /\ writes' = [i \in 1..Len(svb'._channels) |-> [time |-> 0, datetime |-> 0]]
    /\ call' = [op |-> "SVBFile", key |-> <<>>, arg |-> <<>>]
    /\ ret' = IF svb'.state = "ok" THEN Returned(<<>>, "") ELSE Raised(svb'.err)
    /\ UNCHANGED <<file, rd>>

Keys == {svb._channels[i].key : i \in 1..Len(svb._channels)}
IndexOf(key) == CHOOSE i \in 1..Len(svb._channels) : svb._channels[i].key = key

\* The keys looked up: the two channel names of the files, and "z".
LookupKeys == Names \cup {<<122>>}

\* SVBFile.__getitem__(key)
GetItem(key) ==
    /\ svb.state = "ok"
    /\ call' = [op |-> "__getitem__", key |-> key, arg |-> <<>>]
    /\ ret' = IF key \in Keys
              THEN Returned(svb._channels[IndexOf(key)].value, "")
              ELSE Raised("KeyError")
    /\ UNCHANGED <<file, svb, writes, rd>>

\* list(SVBFile.__iter__())
Iter ==
    /\ svb.state = "ok"
    /\ call' = [op |-> "__iter__", key |-> <<>>, arg |-> <<>>]
    /\ ret' = Returned([i \in 1..Len(svb._channels) |-> svb._channels[i].key], "")
    /\ UNCHANGED <<file, svb, writes, rd>>

\* SVBFile.__len__()
LenOf ==
    /\ svb.state = "ok"
    /\ call' = [op |-> "__len__", key |-> <<>>, arg |-> <<>>]
    /\ ret' = Returned(Len(svb._channels), "")
    /\ UNCHANGED <<file, svb, writes, rd>>

\* A variant of TimeGet: no look at the cache, the axis is computed and
\* stored on every access.
TimeGetUncached(ch) ==
    IF Len(ch.Timestamp) = 0
    THEN [raised |-> "IndexError", value |-> <<>>, ch |-> ch, wrote |-> FALSE]
    ELSE [raised |-> "", value |-> TimeAxis(ch.Timestamp),
          ch |-> [ch EXCEPT !._time = Some(TimeAxis(ch.Timestamp))],
          wrote |-> TRUE]

\* One evaluation of the Time property of channel ch: what it returns or
\* raises, the channel afterwards, and whether it stored into _time.
TimeGet(ch) ==
    IF ch._time # None
    THEN [raised |-> "", value |-> ch._time[1], ch |-> ch, wrote |-> FALSE]
    ELSE IF Len(ch.Timestamp) = 0
    THEN [raised |-> "IndexError", value |-> <<>>, ch |-> ch, wrote |-> FALSE]
    ELSE LET result == TimeAxis(ch.Timestamp)
         IN  [raised |-> "", value |-> result,
              ch |-> [ch EXCEPT !._time = Some(result)], wrote |-> TRUE]

\* The channel of key replaced by ch, with n more stores into its _time and
\* m more into its _datetime.
Update(key, ch, n, m) ==
    /\ svb' = [svb EXCEPT !._channels[IndexOf(key)].value = ch]
    /\ writes' = [writes EXCEPT ![IndexOf(key)] =
                     [time |-> @.time + n, datetime |-> @.datetime + m]]

\* The channel object of key.
Channel(key) == svb._channels[IndexOf(key)].value

Count(wrote) == IF wrote THEN 1 ELSE 0

\* svbfile[key].Time
Time(key) ==
    /\ svb.state = "ok" /\ key \in Keys
    /\ \E tg \in {TimeGet(Channel(key))} :
         /\ Update(key, tg.ch, Count(tg.wrote), 0)
         /\ ret' = IF tg.raised # "" THEN Raised(tg.raised)
                   ELSE Returned(tg.value, "")
    /\ call' = [op |-> "Time", key |-> key, arg |-> <<>>]
    /\ UNCHANGED <<file, rd>>

\* svbfile[key].Datetime
Datetime(key) ==
    /\ svb.state = "ok" /\ key \in Keys
    /\ call' = [op |-> "Datetime", key |-> key, arg |-> <<>>]
    /\ UNCHANGED <<file, rd>>
    /\ IF Channel(key)._datetime # None
       THEN /\ ret' = Returned(Channel(key)._datetime[1], "")
            /\ UNCHANGED <<svb, writes>>
       ELSE \E tg \in {TimeGet(Channel(key))} :
              IF tg.raised # ""
              THEN /\ ret' = Raised(tg.raised)
                   /\ UNCHANGED <<svb, writes>>
              ELSE \E lst \in DatetimeLists(Channel(key).StartTime, tg.value) :
                     IF \E i \in 1..Len(lst) : LessN(MaxDatetime, lst[i])
                     THEN /\ Update(key, tg.ch, Count(tg.wrote), 0)
                          /\ ret' = Raised("OverflowError: date value out of range")
                     ELSE /\ Update(key, [tg.ch EXCEPT !._datetime = Some(lst)],
                                    Count(tg.wrote), 1)
                          /\ ret' = Returned(lst, "")

\* svbfile[key].interpolate(t)
Interpolate(key, t) ==
    /\ svb.state = "ok" /\ key \in Keys
    /\ call' = [op |-> "interpolate", key |-> key, arg |-> t]
    /\ UNCHANGED <<file, rd>>
    /\ \E tg \in {TimeGet(Channel(key))} :
         /\ Update(key, tg.ch, Count(tg.wrote), 0)
         /\ IF tg.raised # "" THEN ret' = Raised(tg.raised)
            ELSE \E r \in {InterpolateWith(t, tg.value, Channel(key).Values)} :
                   ret' = Returned(r.result, r.path)

\* svbfile[key].interpolate(svbfile[key].Time) once the time axis is cached
InterpolateOwn(key) ==
    /\ svb.state = "ok" /\ key \in Keys
    /\ Channel(key)._time # None
    /\ Interpolate(key, Channel(key)._time[1])

\* _readheader(file, format) called directly
ReadHeaderCall ==
    /\ rd.format # <<>> /\ rd.out = <<>>
    /\ rd' = [rd EXCEPT !.out = <<ReadHeader(rd.buf, rd.pos, rd.format)>>]
    /\ UNCHANGED <<file, svb, writes, call, ret>>

Next ==
    \/ Construct
    \/ \E key \in LookupKeys : GetItem(key)
    \/ Iter
    \/ LenOf

NextChannel ==
    \/ Construct
    \/ \E key \in Names : Time(key)
    \/ \E key \in Names : Datetime(key)
    \/ \E key \in Names, t \in TimeArgs : Interpolate(key, t)
    \/ \E key \in Names : InterpolateOwn(key)

NextPair ==
    \/ Construct
    \/ \E key \in Names : Time(key)
    \/ \E key \in Names : Datetime(key)
    \/ \E key \in Names : Interpolate(key, <<<<0, 5>>>>)
    \/ \E key \in Names : InterpolateOwn(key)

NextRead == ReadHeaderCall

Spec        == Init /\ [][Next]_vars
SpecChannel == InitChannel /\ [][NextChannel]_vars
SpecPair    == InitPair /\ [][NextPair]_vars
SpecRead    == InitRead /\ [][NextRead]_vars

(***************************************************************************)
(* Properties of _readheader (SpecRead)                                    *)
(***************************************************************************)

\* Whether, walking format from pos, some field finds fewer bytes left in
\* buf than it requires: 4 for a string's length prefix and then as many as
\* the prefix says, 8 for a timestamp, the struct size for a fixed field.
RECURSIVE RunsShort(_, _, _)
RunsShort(buf, pos, format) ==
    IF format = <<>> THEN FALSE
    ELSE IF Head(format) = "*"
    THEN \/ Len(buf) - pos < 4
         \/ LessN(PyInt(Len(buf) - pos - 4), LE(SubSeq(buf, pos + 1, pos + 4)))
         \/ RunsShort(buf, pos + 4 + ToInt(LE(SubSeq(buf, pos + 1, pos + 4))),
                      Tail(format))
    ELSE IF Head(format) = "T"
    THEN Len(buf) - pos < 8 \/ RunsShort(buf, pos + 8, Tail(format))
    ELSE \/ Len(buf) - pos < FieldSize(Head(format))
         \/ RunsShort(buf, pos + FieldSize(Head(format)), Tail(format))

\* C10: whenever the bytes remaining are fewer than a field of the format
\* requires (a fixed-width field, a timestamp, or a string whose length
\* prefix exceeds the bytes left), _readheader raises an error.
C10_TruncationRaises ==
    (rd.out # <<>> /\ RunsShort(rd.buf, rd.pos, rd.format)) => ~rd.out[1].ok

(***************************************************************************)
(* Properties of a channel (SpecChannel, SpecPair)                         *)
(***************************************************************************)

\* result[0] = raw[0] and result[i] = result[i-1] + ((raw[i] - raw[i-1])
\* mod 2^32): element i (from 1) of the unwrapped tick sequence.
RECURSIVE Unwrapped(_, _)
Unwrapped(raw, i) ==
    IF i = 1 THEN raw[1]
    ELSE F64Add(Unwrapped(raw, i - 1), U32Sub(raw[i], raw[i - 1]))

\* C1: for a channel with at least one sample, the time axis Time (in ticks,
\* before the division by 1e7) is the unwrapped sequence of the raw
\* timestamps: it starts at raw[0] and each element adds the wrapped
\* difference of the raw timestamps to the element before it.
C1_TimeIsUnwrapped ==
    \A k \in 1..Len(svb._channels) :
        LET ch == svb._channels[k].value
        IN  ch._time # None =>
              /\ Len(ch._time[1]) = Len(ch.Timestamp)
              /\ \A i \in 1..Len(ch.Timestamp) :
                    ch._time[1][i] = Unwrapped(ch.Timestamp, i)

\* C8: interpolate(t) on a non-decreasing t returns as many values as t has
\* elements, whether it takes the shortcut or calls np.interp.
C8_SameLength ==
    (call.op = "interpolate" /\ ret.raised = "" /\ IsSorted(call.arg))
        => Len(ret.value) = Len(call.arg)

\* One step as C9 allows it: a cache that is set keeps its value, a cache is
\* stored into only by an access to its own channel (Time, Datetime or
\* interpolate for _time, Datetime for _datetime), each store is counted, and
\* an access that finds the cache set returns what the cache holds.
C9_Step ==
    \A i \in 1..Len(svb._channels) :
        LET old  == svb._channels[i].value
            new  == svb'._channels[i].value
            mine == call'.key = svb._channels[i].key
        IN  /\ old._time # None => new._time = old._time
            /\ old._datetime # None => new._datetime = old._datetime
            /\ new._time # old._time =>
                  /\ mine
                  /\ call'.op \in {"Time", "Datetime", "interpolate"}
                  /\ writes'[i].time = writes[i].time + 1
            /\ new._datetime # old._datetime =>
                  /\ mine
                  /\ call'.op = "Datetime"
                  /\ writes'[i].datetime = writes[i].datetime + 1
            /\ writes'[i] # writes[i] => mine
            /\ (mine /\ call'.op = "Time" /\ old._time # None)
                  => (ret'.raised = "" /\ ret'.value = old._time[1])
            /\ (mine /\ call'.op = "Datetime" /\ old._datetime # None)
                  => (ret'.raised = "" /\ ret'.value = old._datetime[1])

\* C9: over any sequence of accesses to Time, Datetime and interpolate, each
\* channel's _time is stored at most once and its _datetime at most once,
\* later accesses return the cached value unchanged, and no access to one
\* channel stores into the caches of another.
C9_WriteOnce ==
    /\ [](\A i \in 1..Len(writes) :
              writes[i].time <= 1 /\ writes[i].datetime <= 1)
    /\ [][C9_Step]_vars

\* C9's case: both caches of one channel are set, a later Time access to it
\* has returned the cached axis, and the other channel's caches are empty.
C9_Witness ==
    /\ Len(svb._channels) = 2
    /\ \E i \in 1..2 :
         /\ writes[i] = [time |-> 1, datetime |-> 1]
         /\ call.op = "Time" /\ call.key = svb._channels[i].key
         /\ svb._channels[i].value._datetime # None
         /\ ret.value = svb._channels[i].value._time[1]
         /\ svb._channels[3 - i].value._time = None
         /\ Len(svb._channels[3 - i].value.Timestamp) > 0

(***************************************************************************)
(* Properties of the constructor and the mapping (Spec)                    *)
(***************************************************************************)

\* The channels of the SVBFile object, and what the constructor got from
\* each Channel(...) call, in file order.
ChannelAt(i) == svb._channels[i].value
Attempts     == 1..Len(svb.log)

\* C2: for a successfully constructed SVBFile the bytes consumed from the
\* header region (the 8-byte length field, the file-level header and all
\* channel records) equal the header size declared in bytes 0-7; a file
\* whose declared size differs from them, a header region cut short by the
\* end of the file included, is not constructed.
C2_HeaderSizeExact ==
    svb.state = "ok" => PyInt(8 + svb.headerPos) = svb.headerSize

\* Whether the three fields a record declares violate
\* DataInFile == (VariableSize + 4) * SamplesInFile.
ViolatesDataSize(f) == f[15] # MulN(AddN(f[13], PyInt(4)), f[14])

\* C3: every channel of a constructed file satisfies
\* DataInFile == (VariableSize + 4) * SamplesInFile, and a record whose
\* fields violate the equality yields no Channel and fails the construction
\* of the SVBFile.
C3_DataSizeChecked ==
    /\ \A i \in 1..Len(svb._channels) :
          ChannelAt(i).DataInFile
              = MulN(AddN(ChannelAt(i).VariableSize, PyInt(4)),
                     ChannelAt(i).SamplesInFile)
    /\ \A i \in Attempts :
          (svb.log[i].hdr.ok /\ ViolatesDataSize(svb.log[i].hdr.fields))
              => /\ ~svb.log[i].ok /\ svb.log[i].ch = <<>>
                 /\ svb.state = "error" /\ svb._channels = <<>>

\* C3's case: a record that passes the header-size check and declares a
\* data size off by one has been read, and the constructor has failed on it
\* after reading a well-formed record before it.
C3_Witness ==
    /\ svb.state = "error" /\ svb.err = "AssertionError"
    /\ Len(svb.log) = 2 /\ svb.log[1].ok
    /\ svb.log[2].hdr.ok /\ ViolatesDataSize(svb.log[2].hdr.fields)
    /\ svb.log[2].hdr.fields[11] \in DOMAIN DATATYPES

\* C5: the mapped view of every constructed channel has SamplesInFile
\* records of 4 + VariableSize bytes from FileStartPosition on, spanning
\* DataInFile bytes, and record i starts at
\* FileStartPosition + i * (4 + VariableSize).
C5_RecordWidth ==
    \A i \in 1..Len(svb._channels) :
        LET ch == ChannelAt(i)
        IN  /\ PyInt(ch.Data.itemsize) = AddN(ch.VariableSize, PyInt(4))
            /\ PyInt(ch.Data.offset) = ch.FileStartPosition
            /\ PyInt(ch.Data.shape) = ch.SamplesInFile
            /\ PyInt(ch.Data.shape * ch.Data.itemsize) = ch.DataInFile
            /\ \A k \in 1..ch.Data.shape :
                  ch.Timestamp[k] =
                      U32(SubSeq(file,
                          ch.Data.offset
                              + (k - 1) * (4 + ToInt(ch.VariableSize)) + 1,
                          ch.Data.offset
                              + (k - 1) * (4 + ToInt(ch.VariableSize)) + 4))

\* The names of the records of a constructed file, in file order.
RecordNames == [i \in Attempts |-> svb.log[i].ch[1].Name]

\* names without the repetitions of a name after its first appearance.
RECURSIVE FirstAppearances(_)
FirstAppearances(names) ==
    IF names = <<>> THEN <<>>
    ELSE LET before == FirstAppearances(SubSeq(names, 1, Len(names) - 1))
             name   == names[Len(names)]
         IN  IF \E i \in 1..Len(before) : before[i] = name THEN before
             ELSE Append(before, name)

\* The Channel of the last record named name.
LastRecord(name) ==
    svb.log[CHOOSE i \in Attempts :
                /\ RecordNames[i] = name
                /\ \A j \in (i + 1)..Len(svb.log) : RecordNames[j] # name].ch[1]

\* C6: iteration yields the names in the order of their first appearance in
\* the file, the lookup of a name returns the Channel of the last record
\* carrying it, and len() is the number of distinct names, at most
\* ChannelCount.
C6_Mapping ==
    svb.state = "ok" =>
        /\ PyInt(Len(svb.log)) = svb.ChannelCount
        /\ call.op = "__iter__" => ret.value = FirstAppearances(RecordNames)
        /\ (call.op = "__getitem__"
               /\ \E i \in Attempts : RecordNames[i] = call.key)
              => (ret.raised = "" /\ ret.value = LastRecord(call.key))
        /\ call.op = "__len__" =>
              /\ ret.value = Cardinality({RecordNames[i] : i \in Attempts})
              /\ ~LessN(svb.ChannelCount, PyInt(ret.value))

\* C6's case: three records, the first and the third of one name and
\* different contents, another name between them; the mapping holds the
\* repeated name first with the third record's Channel, and has been
\* iterated.
C6_Witness ==
    /\ svb.state = "ok" /\ Len(svb.log) = 3
    /\ RecordNames[1] = RecordNames[3] /\ RecordNames[1] # RecordNames[2]
    /\ svb.log[1].ch[1] # svb.log[3].ch[1]
    /\ Len(svb._channels) = 2
    /\ svb._channels[1].key = RecordNames[1]
    /\ svb._channels[1].value = svb.log[3].ch[1]
    /\ call.op = "__iter__" /\ ret.value = <<RecordNames[1], RecordNames[2]>>

\* Whether the record of attempt c passed the header-size check, and carries
\* a tag that is no key of DATATYPES.
SizeCheckPassed(c) ==
    c.hdr.ok /\ PyInt(c.pos - c.startpos) = c.hdr.fields[1]
UnknownTag(c)      == c.hdr.ok /\ c.hdr.fields[11] \notin DOMAIN DATATYPES

\* C7 as stated: every record with an unknown tag whose header-size check
\* passes fails with the error of the tag lookup, whatever its other fields.
C7_UnknownTagAlwaysKeyError ==
    \A i \in Attempts :
        (UnknownTag(svb.log[i]) /\ SizeCheckPassed(svb.log[i]))
            => (~svb.log[i].ok /\ svb.log[i].err = "KeyError")

\* C7: a record with an unknown tag never yields a Channel and fails the
\* construction; when its header-size check passes, the failure is the
\* KeyError of the tag lookup if the declared data size satisfies
\* DataInFile == (VariableSize + 4) * SamplesInFile, and the AssertionError
\* of that check, made before the lookup, if it does not.
C7_UnknownTagFails ==
    /\ Cardinality(DOMAIN DATATYPES) = 15
    /\ \A i \in 1..Len(svb._channels) :
          ChannelAt(i).DataType \in DOMAIN DATATYPES
    /\ \A i \in Attempts :
          UnknownTag(svb.log[i]) =>
              /\ ~svb.log[i].ok /\ svb.log[i].ch = <<>>
              /\ svb.state = "error"
              /\ (SizeCheckPassed(svb.log[i])
                     /\ ~ViolatesDataSize(svb.log[i].hdr.fields))
                    => (svb.log[i].err = "KeyError" /\ svb.err = "KeyError")
              /\ (SizeCheckPassed(svb.log[i])
                     /\ ViolatesDataSize(svb.log[i].hdr.fields))
                    => (svb.log[i].err = "AssertionError"
                           /\ svb.err = "AssertionError")

\* C7's case: a record with an unknown tag that passed the header-size check
\* and declares a data size violating the equality: the assertion has failed
\* the constructor before the tag was looked up.
C7_Witness ==
    /\ svb.state = "error" /\ svb.err = "AssertionError"
    /\ \E i \in Attempts :
         /\ UnknownTag(svb.log[i]) /\ SizeCheckPassed(svb.log[i])
         /\ ViolatesDataSize(svb.log[i].hdr.fields)
         /\ svb.log[i].hdr.fields[14] # <<>>

\* The header buffer of the constructor, file.read(headerSize - 8).
HeaderBuffer == SubSeq(file, 9, 8 + svb.headerLen)

\* The bytes of the UTF-8 encoding of a code point, and of a string.
CodePointBytes(cp) ==
    IF cp < 128 THEN 1 ELSE IF cp < 2048 THEN 2 ELSE IF cp < 65536 THEN 3 ELSE 4

RECURSIVE StringBytes(_)
StringBytes(text) ==
    IF text = <<>> THEN 0
    ELSE CodePointBytes(Head(text)) + StringBytes(Tail(text))

\* S: the bytes of the five strings of a record with fields f.
StringsTotal(f) ==
    StringBytes(f[2]) + StringBytes(f[3]) + StringBytes(f[7])
        + StringBytes(f[8]) + StringBytes(f[11])

\* Field widths of a channel record, 0 for a length-prefixed string: as the
\* documented layout gives them (port, data-type id and value width uint64)
\* and with these three fields as uint32.
WidthsAllUint64 == <<8, 0, 0, 8, 8, 1, 0, 0, 8, 8, 0, 8, 8, 8, 8, 8, 8, 8, 8>>
WidthsUint32    == <<8, 0, 0, 4, 8, 1, 0, 0, 8, 8, 0, 4, 4, 8, 8, 8, 8, 8, 8>>

\* Where field k of a record at start begins in buf under a layout.
RECURSIVE OffsetOf(_, _, _, _)
OffsetOf(buf, start, widths, k) ==
    IF k = 1 THEN start
    ELSE LET o == OffsetOf(buf, start, widths, k - 1)
         IN  IF widths[k - 1] = 0
             THEN o + 4 + ToInt(LE(SubSeq(buf, o + 1, o + 4)))
             ELSE o + widths[k - 1]

\* The value the layout puts in field k: a string after its length prefix,
\* a boolean, a float64 (fields 17 and 18) or a little-endian integer.
FieldValue(buf, start, widths, k) ==
    LET bs == SubSeq(buf, OffsetOf(buf, start, widths, k) + 1,
                     OffsetOf(buf, start, widths, k + 1))
    IN  CASE widths[k] = 0  -> Utf8Decode(SubSeq(bs, 5, Len(bs))).text
          [] widths[k] = 1  -> (bs[1] # 0)
          [] k \in {17, 18} -> [ieee754 |-> bs]
          [] OTHER          -> LE(bs)

\* The record size and the attributes of a Channel in the order of the
\* documented layout.
Attributes(size, ch) ==
    <<size, ch.Name, ch.NetId, ch.Port, ch.SampleTime, ch.SymbolBased,
      ch.SymbolName, ch.Comment, ch.IndexGroup, ch.IndexOffset, ch.DataType,
      ch.DataTypeId, ch.VariableSize, ch.SamplesInFile, ch.DataInFile,
      ch.FileStartPosition, ch.Offset, ch.Scalefactor, ch.Bitmask>>

\* The decoder follows a layout: a record that is read advances the header
\* cursor by fixed + S bytes, each attribute of a Channel is the value of
\* its field in the layout, and the channel count is the countWidth bytes
\* after the file name and the two timestamps.
FollowsLayout(widths, fixed, countWidth) ==
    /\ \A i \in Attempts :
          svb.log[i].hdr.ok =>
              svb.log[i].pos - svb.log[i].startpos
                  = fixed + StringsTotal(svb.log[i].hdr.fields)
    /\ \A i \in Attempts :
          svb.log[i].ok =>
              \A k \in 1..19 :
                  Attributes(svb.log[i].hdr.fields[1], svb.log[i].ch[1])[k]
                      = FieldValue(HeaderBuffer, svb.log[i].startpos, widths, k)
    /\ svb.state = "ok" =>
          svb.ChannelCount
              = LE(Read(HeaderBuffer, 4 + StringBytes(svb.Name) + 16, countWidth))

\* C4 as stated: the fields are read in the documented order with port,
\* data-type id and value width as uint64, so that a record whose strings
\* total S bytes advances the cursor by 125 + S, and the channel count is
\* read as a uint64.
C4_DocumentedLayout == FollowsLayout(WidthsAllUint64, 125, 8)

\* C4: the fields are read in the documented order with port, data-type id
\* and value width as uint32 and all other widths as documented, so that a
\* record whose strings total S bytes advances the cursor by 113 + S, and
\* the channel count is read as a uint32.
C4_ReadLayout == FollowsLayout(WidthsUint32, 113, 4)

\* C4's case: a file of two records is constructed, one of them with a
\* comment of one two-byte character.
C4_Witness ==
    /\ svb.state = "ok" /\ Len(svb.log) = 2 /\ svb.ChannelCount = PyInt(2)
    /\ \E i \in Attempts :
         /\ svb.log[i].ch[1].Comment = <<233>>
         /\ svb.log[i].pos - svb.log[i].startpos
               = 113 + StringsTotal(svb.log[i].hdr.fields)
         /\ svb.log[i].ch[1].Scalefactor # svb.log[i].ch[1].Offset

====
